---------------------------- MODULE Spec2Model ----------------------------
(***************************************************************************)
(* Model of the numeric core of DUNS_Optimizer:                            *)
(*   src/scripts/optimization.py   fuel model, speed optimizer,            *)
(*                                 fleet sizing                            *)
(*   src/scripts/streamlit_app.py  the fleet LP                            *)
(*                                                                         *)
(* Numbers.  The program computes in floating point; the model computes    *)
(* the same expressions exactly.  A real that the code obtains by +,-,*,/  *)
(* from its inputs is a reduced fraction [n, d] with d > 0.  A value that  *)
(* passes through (speed/reference_speed) ** 1.5 is held as the pair       *)
(* [coef, x], which denotes coef * x^1.5; multiplying or dividing it by a  *)
(* rational changes coef only, and two such values are compared exactly    *)
(* (PLe, PEq) without ever evaluating the root.  Rounding error of the     *)
(* floating-point evaluation is outside the model.                         *)
(*                                                                         *)
(* Input domain.  Areas, counts, hours, widths, efficiencies, prices and   *)
(* speeds are >= 0, the optimizer's target area is > 0 and                 *)
(* min_speed <= max_speed (FarmParameters); speed_increment ranges over    *)
(* negative, zero and positive values.                                     *)
(***************************************************************************)
EXTENDS Integers, Sequences, FiniteSets, TLC

VARIABLES pc, args, ret, prev

vars == <<pc, args, ret, prev>>

---------------------------------------------------------------------------
(* Bounds of the explored inputs.                                          *)

MaxTarget == 4

MaxTractorCount == 2

MaxSpeed == 3

MaxLpTractors == 3

(* Speeds handed to the fuel model and to fleet sizing are multiples of    *)
(* one half, up to MaxFuelSpeedHalves / 2.                                 *)
MaxFuelSpeedHalves == 30

MaxSizingSpeedHalves == 6

---------------------------------------------------------------------------
(* Exact rational arithmetic.                                              *)

RECURSIVE GCD(_, _)
GCD(a, b) == IF b = 0 THEN a ELSE GCD(b, a % b)

Abs(a) == IF a < 0 THEN -a ELSE a

Rat(n, d) ==
    LET g == GCD(Abs(n), Abs(d))
        s == IF d < 0 THEN -1 ELSE 1
    IN [n |-> (s * n) \div g, d |-> (s * d) \div g]

Int2Rat(i) == [n |-> i, d |-> 1]

RAdd(a, b) == Rat(a.n * b.d + b.n * a.d, a.d * b.d)

RSub(a, b) == Rat(a.n * b.d - b.n * a.d, a.d * b.d)

RMul(a, b) == Rat(a.n * b.n, a.d * b.d)

RDiv(a, b) == Rat(a.n * b.d, a.d * b.n)

RLe(a, b) == a.n * b.d <= b.n * a.d

RLt(a, b) == a.n * b.d < b.n * a.d

RIsZero(a) == a.n = 0

RFloor(a) == a.n \div a.d

RCeil(a) == -((-a.n) \div a.d)

(* The absent value: Python's None.                                        *)
None == [none |-> TRUE]

(* A missing cell of a DataFrame: NaN.                                     *)
NaN == [nan |-> TRUE]

---------------------------------------------------------------------------
(* Values of the form coef * x^1.5, with coef >= 0.                        *)

PowVal(coef, x) == [coef |-> coef, x |-> x]

PScale(v, r) == [coef |-> RMul(v.coef, r), x |-> v.x]

PDivide(v, r) == [coef |-> RDiv(v.coef, r), x |-> v.x]

PIsZero(v) == v.coef.n = 0 \/ v.x.n = 0

(* a <= b for real a, b >= 0:  (a.coef/b.coef)^2 <= (b.x/a.x)^3.           *)
PLe(a, b) ==
    IF PIsZero(a) THEN TRUE
    ELSE IF PIsZero(b) THEN FALSE
    ELSE LET c == RDiv(a.coef, b.coef)
             y == RDiv(b.x, a.x)
         IN c.n * c.n * y.d * y.d * y.d <= y.n * y.n * y.n * c.d * c.d

PLt(a, b) == ~PLe(b, a)

PEq(a, b) == PLe(a, b) /\ PLe(b, a)

---------------------------------------------------------------------------
(* OPERATION_FUEL_DATA: base L/ha and reference speed of each operation.   *)

OPERATION_FUEL_DATA ==
    ("Ploughing (Moldboard/Disc)" :>
        [base |-> Rat(35, 1), reference_speed |-> Rat(5, 1)]) @@
    ("Harrowing (Disc/Tine)" :>
        [base |-> Rat(15, 1), reference_speed |-> Rat(7, 1)]) @@
    ("Rotavating/Rotary Tillage" :>
        [base |-> Rat(55, 2), reference_speed |-> Rat(4, 1)]) @@
    ("Ridging/Bed Formation" :>
        [base |-> Rat(15, 1), reference_speed |-> Rat(6, 1)]) @@
    ("Planting/Seeding" :>
        [base |-> Rat(11, 2), reference_speed |-> Rat(5, 1)]) @@
    ("Spraying" :>
        [base |-> Rat(2, 1), reference_speed |-> Rat(8, 1)]) @@
    ("Fertilizer Spreading" :>
        [base |-> Rat(2, 1), reference_speed |-> Rat(10, 1)]) @@
    ("Harvesting (Combine)" :>
        [base |-> Rat(45, 2), reference_speed |-> Rat(9, 2)]) @@
    ("Transport (Field to Yard)" :>
        [base |-> Rat(25, 2), reference_speed |-> Rat(15, 1)])

Operations == DOMAIN OPERATION_FUEL_DATA

(* A variant that applies the speed penalty only above the reference       *)
(* speed: base * max(speed / reference_speed, 1) ** 1.5.                   *)
FuelConsumptionPenaltyAboveReference(operation_type, operating_speed) ==
    LET operation_data == OPERATION_FUEL_DATA[operation_type]
        base_consumption == operation_data.base
        reference_speed == operation_data.reference_speed
    IN IF RLe(operating_speed, reference_speed)
       THEN PowVal(base_consumption, Int2Rat(1))
       ELSE PowVal(base_consumption, RDiv(operating_speed, reference_speed))

(* calculate_fuel_consumption: base * (speed / reference_speed) ** 1.5.    *)
(* There is no check of the speed: every speed yields a value.             *)
calculate_fuel_consumption(operation_type, operating_speed) ==
    LET operation_data == OPERATION_FUEL_DATA[operation_type]
        base_consumption == operation_data.base
        reference_speed == operation_data.reference_speed
    IN PowVal(base_consumption, RDiv(operating_speed, reference_speed))

---------------------------------------------------------------------------
(* numpy.arange(start, stop, step): ceil((stop - start) / step) values     *)
(* start, start + step, ...; a zero step raises ZeroDivisionError.         *)

ArangeLength(start, stop, step) ==
    LET len == RCeil(RDiv(RSub(stop, start), step))
    IN IF len < 0 THEN 0 ELSE len

Arange(start, stop, step) ==
    [i \in 1 .. ArangeLength(start, stop, step) |->
        RAdd(start, RMul(Int2Rat(i - 1), step))]

---------------------------------------------------------------------------
(* find_optimal_speed.                                                     *)

(* The swept speeds: np.arange(min_speed, max_speed + speed_increment,     *)
(* speed_increment).                                                       *)
SpeedGrid(min_speed, max_speed, speed_increment) ==
    Arange(min_speed, RAdd(max_speed, speed_increment), speed_increment)

(* can_complete with the comparison turned round.                          *)
CanCompleteWithinTarget(total_daily_capacity, target_hectares) ==
    RLe(total_daily_capacity, target_hectares)

(* can_complete = total_daily_capacity >= target_hectares.                 *)
CanComplete(total_daily_capacity, target_hectares) ==
    RLe(target_hectares, total_daily_capacity)

(* Capacity of the whole fleet at a speed, per hour and per day.           *)
HourlyCapacityPerTractor(speed, implement_width, field_efficiency) ==
    RDiv(RMul(RMul(speed, implement_width), field_efficiency), Int2Rat(10))

TotalHourlyCapacity(p, speed) ==
    RMul(HourlyCapacityPerTractor(speed, p.implement_width,
                                  p.field_efficiency),
         Int2Rat(p.tractor_count))

TotalDailyCapacity(p, speed) ==
    RMul(TotalHourlyCapacity(p, speed), p.working_hours)

(* CompleteResults charging fuel for the area a full day achieves, as the  *)
(* other branch does, instead of for the target area.                      *)
CompleteResultsFullDayFuel(p, speed) ==
    LET target_hectares == Int2Rat(p.target_hectares)
        fuel_per_hectare == calculate_fuel_consumption(p.operation_type, speed)
        time_required == RDiv(target_hectares, TotalHourlyCapacity(p, speed))
        fuel_required == PScale(fuel_per_hectare, TotalDailyCapacity(p, speed))
        total_cost == PScale(fuel_required, p.fuel_cost_per_liter)
        cost_per_hectare == PDivide(total_cost, target_hectares)
    IN [speed |-> speed,
        can_complete |-> TRUE,
        time_required_hours |-> time_required,
        fuel_required |-> fuel_required,
        total_cost |-> total_cost,
        cost_per_hectare |-> cost_per_hectare,
        total_hourly_capacity |-> TotalHourlyCapacity(p, speed),
        total_daily_capacity |-> TotalDailyCapacity(p, speed),
        fuel_per_hectare |-> fuel_per_hectare]

(* CompleteResults with the target-area fuel formed by / instead of *.     *)
CompleteResultsFuelDivided(p, speed) ==
    LET target_hectares == Int2Rat(p.target_hectares)
        fuel_per_hectare == calculate_fuel_consumption(p.operation_type, speed)
        time_required == RDiv(target_hectares, TotalHourlyCapacity(p, speed))
        fuel_required == PDivide(fuel_per_hectare, target_hectares)
        total_cost == PScale(fuel_required, p.fuel_cost_per_liter)
        cost_per_hectare == PDivide(total_cost, target_hectares)
    IN [speed |-> speed,
        can_complete |-> TRUE,
        time_required_hours |-> time_required,
        fuel_required |-> fuel_required,
        total_cost |-> total_cost,
        cost_per_hectare |-> cost_per_hectare,
        total_hourly_capacity |-> TotalHourlyCapacity(p, speed),
        total_daily_capacity |-> TotalDailyCapacity(p, speed),
        fuel_per_hectare |-> fuel_per_hectare]

(* The row of a speed that meets the target: time and fuel for the target  *)
(* area.                                                                   *)
CompleteResults(p, speed) ==
    LET target_hectares == Int2Rat(p.target_hectares)
        fuel_per_hectare == calculate_fuel_consumption(p.operation_type, speed)
        time_required == RDiv(target_hectares, TotalHourlyCapacity(p, speed))
        fuel_required == PScale(fuel_per_hectare, target_hectares)
        total_cost == PScale(fuel_required, p.fuel_cost_per_liter)
        cost_per_hectare == PDivide(total_cost, target_hectares)
    IN [speed |-> speed,
        can_complete |-> TRUE,
        time_required_hours |-> time_required,
        fuel_required |-> fuel_required,
        total_cost |-> total_cost,
        cost_per_hectare |-> cost_per_hectare,
        total_hourly_capacity |-> TotalHourlyCapacity(p, speed),
        total_daily_capacity |-> TotalDailyCapacity(p, speed),
        fuel_per_hectare |-> fuel_per_hectare]

(* PartialResults charging fuel for the target area, as the other branch   *)
(* does, instead of for the area a full day achieves.                      *)
PartialResultsTargetFuel(p, speed) ==
    LET total_daily_capacity == TotalDailyCapacity(p, speed)
        fuel_per_hectare == calculate_fuel_consumption(p.operation_type, speed)
        time_required == p.working_hours
        fuel_required == PScale(fuel_per_hectare, Int2Rat(p.target_hectares))
        total_cost == PScale(fuel_required, p.fuel_cost_per_liter)
        cost_per_hectare ==
            IF RLt(Int2Rat(0), total_daily_capacity)
            THEN PDivide(total_cost, total_daily_capacity)
            ELSE PowVal(Int2Rat(0), Int2Rat(0))
    IN [speed |-> speed,
        can_complete |-> FALSE,
        time_required_hours |-> time_required,
        fuel_required |-> fuel_required,
        total_cost |-> total_cost,
        cost_per_hectare |-> cost_per_hectare,
        total_hourly_capacity |-> TotalHourlyCapacity(p, speed),
        total_daily_capacity |-> total_daily_capacity,
        fuel_per_hectare |-> fuel_per_hectare,
        area_achievable |-> total_daily_capacity]

(* The row of a speed that does not: what a full day achieves.             *)
PartialResults(p, speed) ==
    LET total_daily_capacity == TotalDailyCapacity(p, speed)
        fuel_per_hectare == calculate_fuel_consumption(p.operation_type, speed)
        time_required == p.working_hours
        fuel_required == PScale(fuel_per_hectare, total_daily_capacity)
        total_cost == PScale(fuel_required, p.fuel_cost_per_liter)
        cost_per_hectare ==
            IF RLt(Int2Rat(0), total_daily_capacity)
            THEN PDivide(total_cost, total_daily_capacity)
            ELSE PowVal(Int2Rat(0), Int2Rat(0))
    IN [speed |-> speed,
        can_complete |-> FALSE,
        time_required_hours |-> time_required,
        fuel_required |-> fuel_required,
        total_cost |-> total_cost,
        cost_per_hectare |-> cost_per_hectare,
        total_hourly_capacity |-> TotalHourlyCapacity(p, speed),
        total_daily_capacity |-> total_daily_capacity,
        fuel_per_hectare |-> fuel_per_hectare,
        area_achievable |-> total_daily_capacity]

(* One pass of the loop over the speeds.                                   *)
EvaluateSpeed(p, speed) ==
    IF CanComplete(TotalDailyCapacity(p, speed), Int2Rat(p.target_hectares))
    THEN CompleteResults(p, speed)
    ELSE PartialResults(p, speed)

(* pd.DataFrame(all_results): the columns are the union of the rows' keys, *)
(* a row without a key holds NaN in that column.                           *)
DataFrame(all_results) ==
    [i \in DOMAIN all_results |->
        IF all_results[i].can_complete
           /\ \E j \in DOMAIN all_results : ~all_results[j].can_complete
        THEN all_results[i] @@ [area_achievable |-> NaN]
        ELSE all_results[i]]

(* IdxMin returning the last row holding the least total_cost, not the    *)
(* first.                                                                  *)
IdxMinLast(results_df, labels) ==
    CHOOSE i \in labels :
        /\ \A j \in labels :
              PLe(results_df[i].total_cost, results_df[j].total_cost)
        /\ \A j \in labels :
              j > i => ~PLe(results_df[j].total_cost, results_df[i].total_cost)

(* feasible["total_cost"].idxmin(): the label of the first row holding the *)
(* least total_cost among the rows labelled in `labels'.                   *)
IdxMin(results_df, labels) ==
    CHOOSE i \in labels :
        /\ \A j \in labels :
              PLe(results_df[i].total_cost, results_df[j].total_cost)
        /\ \A j \in labels :
              j < i => ~PLe(results_df[j].total_cost, results_df[i].total_cost)

Raised(exception) ==
    [raised |-> exception, status |-> None, optimal_speed |-> None,
     optimal_metrics |-> None, all_results |-> None]

(* The loop of lines 136-188 over the swept speeds.                        *)
EvaluateAll(p, speeds) == [i \in DOMAIN speeds |-> EvaluateSpeed(p, speeds[i])]

(* Lines 193-205 for a non-empty frame whose feasible rows are `feasible'. *)
(* The row picked when nothing is feasible (the last one, line 197) is not *)
(* part of the returned value: both optimal_* keys are None then.          *)
Outcome(results_df, feasible) ==
    IF feasible # {}
    THEN [raised |-> "none",
          status |-> "optimal",
          optimal_speed |-> results_df[IdxMin(results_df, feasible)].speed,
          optimal_metrics |-> results_df[IdxMin(results_df, feasible)],
          all_results |-> results_df]
    ELSE [raised |-> "none",
          status |-> "infeasible",
          optimal_speed |-> None,
          optimal_metrics |-> None,
          all_results |-> results_df]

(* Lines 190-205.  An empty frame has no column "can_complete": line 191   *)
(* raises KeyError.                                                        *)
SelectOptimal(results_df) ==
    IF Len(results_df) = 0 THEN Raised("KeyError")
    ELSE Outcome(results_df,
                 {i \in DOMAIN results_df : results_df[i].can_complete})

find_optimal_speed(p) ==
    IF RIsZero(p.speed_increment) THEN Raised("ZeroDivisionError")
    ELSE SelectOptimal(DataFrame(EvaluateAll(p,
             SpeedGrid(p.min_speed, p.max_speed, p.speed_increment))))

---------------------------------------------------------------------------
(* calculate_tractors_for_speed.                                           *)

(* TractorsNeeded rounding down instead of up.                             *)
TractorsNeededFloor(target_hectares, daily_capacity_per_tractor) ==
    IF RLt(Int2Rat(0), daily_capacity_per_tractor)
    THEN RFloor(RDiv(target_hectares, daily_capacity_per_tractor))
    ELSE 0

(* np.ceil(target / daily capacity) if daily capacity > 0 else 0.          *)
TractorsNeeded(target_hectares, daily_capacity_per_tractor) ==
    IF RLt(Int2Rat(0), daily_capacity_per_tractor)
    THEN RCeil(RDiv(target_hectares, daily_capacity_per_tractor))
    ELSE 0

(* The function has no raise statement: every call returns a result.       *)
calculate_tractors_for_speed(a) ==
    LET target_hectares == Int2Rat(a.target_hectares)
        hourly_capacity_per_tractor ==
            HourlyCapacityPerTractor(a.desired_speed, a.implement_width,
                                     a.field_efficiency)
        daily_capacity_per_tractor ==
            RMul(hourly_capacity_per_tractor, a.working_hours)
        tractors_needed ==
            TractorsNeeded(target_hectares, daily_capacity_per_tractor)
        total_hourly_capacity ==
            RMul(hourly_capacity_per_tractor, Int2Rat(tractors_needed))
        time_required ==
            IF RLt(Int2Rat(0), total_hourly_capacity)
            THEN RDiv(target_hectares, total_hourly_capacity)
            ELSE Int2Rat(0)
        fuel_per_hectare ==
            calculate_fuel_consumption(a.operation_type, a.desired_speed)
        fuel_required == PScale(fuel_per_hectare, target_hectares)
        total_fuel_cost == PScale(fuel_required, a.fuel_cost_per_liter)
    IN [raised |-> "none",
        tractors_needed |-> tractors_needed,
        fuel_required |-> fuel_required,
        time_required |-> time_required,
        total_fuel_cost |-> total_fuel_cost,
        fuel_per_hectare |-> fuel_per_hectare,
        hourly_capacity_per_tractor |-> hourly_capacity_per_tractor,
        total_hourly_capacity |-> total_hourly_capacity]

---------------------------------------------------------------------------
(* The fleet LP of streamlit_app.py.  An affine expression of PuLP is a    *)
(* map from variable names to coefficients plus a constant.                *)

LpVariable(name) == [terms |-> (name :> Int2Rat(1)), constant |-> Int2Rat(0)]

AffScale(c, e) ==
    [terms |-> [v \in DOMAIN e.terms |-> RMul(c, e.terms[v])],
     constant |-> RMul(c, e.constant)]

AffAddConstant(e, k) == [terms |-> e.terms, constant |-> RAdd(e.constant, k)]

(* LpAffineExpression.__truediv__: dividing by an expression that holds a  *)
(* variable raises TypeError; dividing by a constant scales.               *)
AffDivide(e, other) ==
    IF DOMAIN other.terms # {}
    THEN [raised |-> "TypeError"]
    ELSE [raised |-> "none",
          value |-> AffScale(RDiv(Int2Rat(1), other.constant), e)]

(* create_optimization_model: the objective of line 14 is built first, and *)
(* the constraints only if that did not raise.                             *)
create_optimization_model(a) ==
    LET fuel_usage == LpVariable("Fuel_Usage")
        hectares_covered == LpVariable("Hectares_Covered")
        objective == AffDivide(AffScale(a.fuel_cost, fuel_usage),
                               AffAddConstant(hectares_covered, Int2Rat(1)))
    IN IF objective.raised # "none"
       THEN [raised |-> objective.raised]
       ELSE [raised |-> "none",
             objective |-> objective.value,
             coverage_per_tractor |-> a.coverage_per_tractor,
             fuel_per_tractor |-> a.fuel_per_tractor,
             max_fuel |-> a.max_fuel,
             max_tractors |-> a.max_tractors]

(* The coefficient of a variable in an affine expression.                  *)
Coefficient(e, v) == IF v \in DOMAIN e.terms THEN e.terms[v] ELSE Int2Rat(0)

(* The value of an affine objective at tractor count t, with the two       *)
(* equality constraints fixing fuel and hectares.                          *)
ObjectiveAt(m, t) ==
    LET fuel == RMul(Int2Rat(t), m.fuel_per_tractor)
        hectares == RMul(Int2Rat(t), m.coverage_per_tractor)
    IN RAdd(m.objective.constant,
            RAdd(RMul(Coefficient(m.objective, "Fuel_Usage"), fuel),
                 RMul(Coefficient(m.objective, "Hectares_Covered"), hectares)))

(* model.solve() on a model that was built: the integer tractor counts     *)
(* within the two ceilings, and a least-objective one among them.          *)
Solve(m) ==
    LET ok == {t \in 0 .. m.max_tractors :
                  RLe(RMul(Int2Rat(t), m.fuel_per_tractor), m.max_fuel)}
        best == CHOOSE t \in ok :
                    \A u \in ok : RLe(ObjectiveAt(m, t), ObjectiveAt(m, u))
    IN IF ok = {}
       THEN [raised |-> "none", status |-> "Infeasible", fuel_used |-> None,
             hectares |-> None, tractors |-> None]
       ELSE [raised |-> "none", status |-> "Optimal",
             fuel_used |-> RMul(Int2Rat(best), m.fuel_per_tractor),
             hectares |-> RMul(Int2Rat(best), m.coverage_per_tractor),
             tractors |-> best]

solve_and_display(a) ==
    LET model == create_optimization_model(a)
    IN IF model.raised # "none"
       THEN [raised |-> model.raised, status |-> None, fuel_used |-> None,
             hectares |-> None, tractors |-> None]
       ELSE Solve(model)

---------------------------------------------------------------------------
(* The speed optimizer called on bounded inputs, and called again with     *)
(* another target area and every other argument unchanged (as main does    *)
(* when the target-area input changes).                                    *)

SpeedIncrements == {Rat(-1, 1), Rat(0, 1), Rat(1, 2), Rat(1, 1), Rat(2, 1)}

WorkingHours == {Rat(8, 1), Rat(10, 1)}

ImplementWidths == {Rat(2, 1)}

SizingWidths == {Rat(0, 1), Rat(9, 5), Rat(2, 1)}

FieldEfficiencies == {Rat(1, 2), Rat(3, 4)}

FuelCosts == {Rat(0, 1), Rat(2, 1)}

OptimizerOperations == {"Ploughing (Moldboard/Disc)", "Harvesting (Combine)"}

OptimizerInputs ==
    { [target_hectares |-> t, tractor_count |-> n,
       min_speed |-> Int2Rat(lo), max_speed |-> Int2Rat(hi),
       working_hours |-> h, implement_width |-> w, field_efficiency |-> e,
       fuel_cost_per_liter |-> c, operation_type |-> op,
       speed_increment |-> inc] :
        t \in 1 .. MaxTarget, n \in 0 .. MaxTractorCount,
        lo \in 0 .. MaxSpeed, hi \in 0 .. MaxSpeed,
        h \in WorkingHours, w \in ImplementWidths, e \in FieldEfficiencies,
        c \in FuelCosts, op \in OptimizerOperations,
        inc \in SpeedIncrements }

Init ==
    /\ pc = "call"
    /\ args \in {p \in OptimizerInputs : RLe(p.min_speed, p.max_speed)}
    /\ ret = None
    /\ prev = None

FindOptimalSpeed ==
    /\ pc = "call"
    /\ ret' = find_optimal_speed(args)
    /\ pc' = "done"
    /\ UNCHANGED <<args, prev>>

ChangeTargetHectares ==
    /\ pc = "done"
    /\ \E t \in 1 .. MaxTarget :
          /\ t # args.target_hectares
          /\ args' = [args EXCEPT !.target_hectares = t]
          /\ ret' = find_optimal_speed(args')
          /\ prev' = [target_hectares |-> args.target_hectares, ret |-> ret]
    /\ UNCHANGED pc

Next == FindOptimalSpeed \/ ChangeTargetHectares

Spec == Init /\ [][Next]_vars

---------------------------------------------------------------------------
(* Properties of find_optimal_speed, checked under Spec.                   *)

Returned == pc = "done" /\ ret.raised = "none"

Rows == ret.all_results

FeasibleRows == {i \in DOMAIN Rows : Rows[i].can_complete}

(* C1: when at least one sampled speed is feasible the status is "optimal" *)
(* and the selected candidate is a feasible member of the candidate        *)
(* sequence whose total_cost is least among the feasible candidates; among *)
(* feasible candidates of that same least cost it is the one of lowest     *)
(* speed.                                                                  *)
C1_OptimalIsCheapestFeasible ==
    (Returned /\ FeasibleRows # {}) =>
        /\ ret.status = "optimal"
        /\ \E i \in FeasibleRows :
              /\ ret.optimal_metrics = Rows[i]
              /\ ret.optimal_speed = Rows[i].speed
              /\ \A j \in FeasibleRows :
                    /\ PLe(Rows[i].total_cost, Rows[j].total_cost)
                    /\ PEq(Rows[j].total_cost, Rows[i].total_cost)
                          => RLe(Rows[i].speed, Rows[j].speed)

(* The tie case of C1: two feasible candidates of equal cost, the          *)
(* lower-speed one selected, in a run that also has an infeasible one.     *)
C1_Witness ==
    /\ Returned
    /\ ret.status = "optimal"
    /\ \E i, j \in FeasibleRows :
          /\ i < j
          /\ PEq(Rows[i].total_cost, Rows[j].total_cost)
          /\ ret.optimal_metrics = Rows[i]
    /\ \E k \in DOMAIN Rows : ~Rows[k].can_complete

(* C2 (stated for runs with a positive increment): when no sampled speed   *)
(* is feasible the status is "infeasible" and    *)
(* the outcome carries the last-evaluated candidate as its selected        *)
(* reference point, whose reported achievable area is that candidate's     *)
(* total daily capacity.                                                   *)
C2_InfeasibleSurfacesLast ==
    (Returned /\ FeasibleRows = {} /\ RLt(Int2Rat(0), args.speed_increment)) =>
        /\ ret.status = "infeasible"
        /\ ret.optimal_metrics = Rows[Len(Rows)]
        /\ ret.optimal_metrics.area_achievable
              = Rows[Len(Rows)].total_daily_capacity

(* C3: for min_speed <= max_speed and speed_increment > 0 the candidate    *)
(* sequence starts at min_speed, ascends in steps of speed_increment, has  *)
(* floor((max_speed - min_speed) / speed_increment) + 1 entries, holds no  *)
(* speed above max_speed, holds max_speed when it lies on a step, and ends *)
(* within one increment of max_speed.                                      *)
C3_GridComplete ==
    (pc = "done" /\ RLt(Int2Rat(0), args.speed_increment)) =>
        /\ ret.raised = "none"
        /\ Len(Rows) = RFloor(RDiv(RSub(args.max_speed, args.min_speed),
                                   args.speed_increment)) + 1
        /\ Rows[1].speed = args.min_speed
        /\ \A i \in 1 .. Len(Rows) - 1 :
              Rows[i + 1].speed = RAdd(Rows[i].speed, args.speed_increment)
        /\ \A i \in DOMAIN Rows : RLe(Rows[i].speed, args.max_speed)
        /\ RDiv(RSub(args.max_speed, args.min_speed), args.speed_increment).d = 1
              => \E i \in DOMAIN Rows : Rows[i].speed = args.max_speed
        /\ RLt(RSub(args.max_speed, Rows[Len(Rows)].speed),
               args.speed_increment)

(* C4: in every candidate the feasibility flag is true exactly when the    *)
(* fleet's daily capacity is at least the target area; a feasible          *)
(* candidate has time = target / hourly capacity and fuel = fuel per       *)
(* hectare * target; an infeasible one has time = the working day, fuel =  *)
(* fuel per hectare * daily capacity and area_achievable = daily capacity; *)
(* in both, total_cost = fuel_required * fuel cost per litre.              *)
C4_CandidateFormulas ==
    Returned =>
        \A i \in DOMAIN Rows :
            LET r == Rows[i]
                target == Int2Rat(args.target_hectares)
                hourly == RDiv(RMul(RMul(RMul(r.speed, args.implement_width),
                                         args.field_efficiency),
                                    Int2Rat(args.tractor_count)),
                               Int2Rat(10))
                daily == RMul(hourly, args.working_hours)
                rate == PowVal(OPERATION_FUEL_DATA[args.operation_type].base,
                         RDiv(r.speed,
                              OPERATION_FUEL_DATA[args.operation_type]
                                  .reference_speed))
            IN /\ r.total_hourly_capacity = hourly
               /\ r.total_daily_capacity = daily
               /\ r.can_complete <=> RLe(target, daily)
               /\ PEq(r.fuel_per_hectare, rate)
               /\ r.can_complete =>
                     /\ r.time_required_hours = RDiv(target, hourly)
                     /\ PEq(r.fuel_required, PScale(rate, target))
               /\ ~r.can_complete =>
                     /\ r.time_required_hours = args.working_hours
                     /\ PEq(r.fuel_required, PScale(rate, daily))
                     /\ r.area_achievable = daily
               /\ PEq(r.total_cost,
                      PScale(r.fuel_required, args.fuel_cost_per_liter))

(* A run of C4 with a feasible and an infeasible candidate, both of        *)
(* non-zero capacity and non-zero cost.                                    *)
C4_Witness ==
    /\ Returned
    /\ \E i, j \in DOMAIN Rows :
          /\ Rows[i].can_complete
          /\ ~Rows[j].can_complete
          /\ ~RIsZero(Rows[j].total_daily_capacity)
          /\ ~PIsZero(Rows[i].total_cost)
          /\ ~PIsZero(Rows[j].total_cost)

(* C7: of two runs that differ only in target area and both end "optimal", *)
(* the one with the smaller (or equal) target selects a total cost that is *)
(* not greater.                                                            *)
C7_CostMonotoneInTarget ==
    (Returned /\ prev # None /\ prev.ret.raised = "none"
       /\ ret.status = "optimal" /\ prev.ret.status = "optimal") =>
        /\ prev.target_hectares <= args.target_hectares =>
              PLe(prev.ret.optimal_metrics.total_cost,
                  ret.optimal_metrics.total_cost)
        /\ args.target_hectares <= prev.target_hectares =>
              PLe(ret.optimal_metrics.total_cost,
                  prev.ret.optimal_metrics.total_cost)

(* Two optimal runs of C7 whose larger target forces a higher speed and a  *)
(* strictly higher cost.                                                   *)
C7_Witness ==
    /\ Returned /\ prev # None /\ prev.ret.raised = "none"
    /\ ret.status = "optimal" /\ prev.ret.status = "optimal"
    /\ prev.target_hectares < args.target_hectares
    /\ RLt(prev.ret.optimal_speed, ret.optimal_speed)
    /\ PLt(prev.ret.optimal_metrics.total_cost, ret.optimal_metrics.total_cost)

(* C13: with positive target area, tractor count, working hours, width,    *)
(* efficiency, fuel cost and base rate: if a sampled speed is feasible so  *)
(* is every higher sampled speed; of two feasible candidates the one of    *)
(* higher speed has the strictly higher total_cost; and when the status is *)
(* "optimal" the selected speed is the lowest feasible sampled speed, every *)
(* sampled speed below it being infeasible.                                *)
C13_LowestFeasibleSpeedSelected ==
    (Returned /\ args.tractor_count > 0
       /\ RLt(Int2Rat(0), args.fuel_cost_per_liter)) =>
        /\ \A i, j \in DOMAIN Rows :
              RLt(Rows[i].speed, Rows[j].speed) =>
                  /\ Rows[i].can_complete => Rows[j].can_complete
                  /\ (Rows[i].can_complete /\ Rows[j].can_complete)
                        => PLt(Rows[i].total_cost, Rows[j].total_cost)
        /\ ret.status = "optimal" =>
              \E i \in FeasibleRows :
                  /\ ret.optimal_speed = Rows[i].speed
                  /\ ret.optimal_metrics = Rows[i]
                  /\ \A j \in DOMAIN Rows :
                        RLt(Rows[j].speed, Rows[i].speed)
                            => ~Rows[j].can_complete

(* An optimal run of C13 with sampled speeds on both sides of the selected *)
(* one: an infeasible speed below it and a feasible, dearer one above it.  *)
C13_Witness ==
    /\ Returned
    /\ args.tractor_count > 0
    /\ RLt(Int2Rat(0), args.fuel_cost_per_liter)
    /\ ret.status = "optimal"
    /\ \E i, j \in DOMAIN Rows :
          /\ ~Rows[i].can_complete
          /\ RLt(Rows[i].speed, ret.optimal_speed)
          /\ Rows[j].can_complete
          /\ RLt(ret.optimal_speed, Rows[j].speed)
          /\ PLt(ret.optimal_metrics.total_cost, Rows[j].total_cost)

(* The area a candidate's fuel is charged for: the target when feasible,   *)
(* the total daily capacity when not.                                      *)
ChargedArea(row) ==
    IF row.can_complete THEN Int2Rat(args.target_hectares)
    ELSE row.total_daily_capacity

(* C14: in every candidate of a run, feasible or not, time_required_hours  *)
(* is at most the working hours per day, and the area its fuel is charged  *)
(* for (the target when feasible, the total daily capacity when not) is at *)
(* most the target area: fuel_required is fuel_per_hectare times that area *)
(* and never more than fuel_per_hectare times the target.                  *)
C14_WithinDayAndTarget ==
    Returned =>
        \A i \in DOMAIN Rows :
            /\ RLe(Rows[i].time_required_hours, args.working_hours)
            /\ RLe(ChargedArea(Rows[i]), Int2Rat(args.target_hectares))
            /\ PEq(Rows[i].fuel_required,
                   PScale(Rows[i].fuel_per_hectare, ChargedArea(Rows[i])))
            /\ PLe(Rows[i].fuel_required,
                   PScale(Rows[i].fuel_per_hectare,
                          Int2Rat(args.target_hectares)))

(* A run of C14 with a feasible candidate that has capacity to spare (less *)
(* than a day, more area than asked) and an infeasible one that achieves   *)
(* some area.                                                              *)
C14_Witness ==
    /\ Returned
    /\ \E i, j \in DOMAIN Rows :
          /\ Rows[i].can_complete
          /\ RLt(Rows[i].time_required_hours, args.working_hours)
          /\ RLt(Int2Rat(args.target_hectares), Rows[i].total_daily_capacity)
          /\ ~PIsZero(Rows[i].fuel_required)
          /\ ~Rows[j].can_complete
          /\ RLt(Int2Rat(0), Rows[j].area_achievable)
          /\ ~PIsZero(Rows[j].fuel_required)

(* C8: a call with speed_increment <= 0 ends in a DomainError: it returns  *)
(* no outcome and raises nothing else.                                     *)
C8_NonPositiveIncrementRejected ==
    (pc = "done" /\ RLe(args.speed_increment, Int2Rat(0))) =>
        ret.raised = "DomainError"

---------------------------------------------------------------------------
(* calculate_tractors_for_speed called on bounded inputs.                  *)

SizingHours == {Rat(0, 1), Rat(8, 1), Rat(10, 1)}

SizingEfficiencies == {Rat(0, 1), Rat(1, 2), Rat(3, 4)}

SizingInputs ==
    { [target_hectares |-> t, desired_speed |-> Rat(k, 2),
       working_hours |-> h, implement_width |-> w, field_efficiency |-> e,
       fuel_cost_per_liter |-> c, operation_type |-> op] :
        t \in 0 .. MaxTarget, k \in 0 .. MaxSizingSpeedHalves,
        h \in SizingHours, w \in SizingWidths, e \in SizingEfficiencies,
        c \in FuelCosts, op \in OptimizerOperations }

InitFleet ==
    /\ pc = "call"
    /\ args \in SizingInputs
    /\ ret = None
    /\ prev = None

CalculateTractorsForSpeed ==
    /\ pc = "call"
    /\ ret' = calculate_tractors_for_speed(args)
    /\ pc' = "done"
    /\ UNCHANGED <<args, prev>>

NextFleet == CalculateTractorsForSpeed

SpecFleet == InitFleet /\ [][NextFleet]_vars

SizingHourly ==
    RDiv(RMul(RMul(args.desired_speed, args.implement_width),
              args.field_efficiency), Int2Rat(10))

SizingDaily == RMul(SizingHourly, args.working_hours)

(* C5: with a per-tractor daily capacity of zero and a non-zero target     *)
(* area, calculate_tractors_for_speed ends in a DomainError and returns no *)
(* result.                                                                 *)
C5_ZeroCapacityRejected ==
    (pc = "done" /\ RIsZero(SizingDaily) /\ args.target_hectares # 0) =>
        ret.raised = "DomainError"

(* C6: for a target area > 0 and a positive per-tractor daily capacity,    *)
(* tractors_needed is the least positive integer n with n * daily capacity *)
(* >= target, and total_hourly_capacity and time_required are those of     *)
(* that integer fleet: hourly capacity * n and target / (hourly * n).      *)
C6_MinimumIntegerFleet ==
    (pc = "done" /\ args.target_hectares > 0
       /\ RLt(Int2Rat(0), SizingDaily)) =>
        LET n == ret.tractors_needed
            target == Int2Rat(args.target_hectares)
        IN /\ ret.raised = "none"
           /\ n \in Nat /\ n >= 1
           /\ RLe(target, RMul(Int2Rat(n), SizingDaily))
           /\ RLt(RMul(Int2Rat(n - 1), SizingDaily), target)
           /\ ret.total_hourly_capacity = RMul(SizingHourly, Int2Rat(n))
           /\ ret.time_required
                 = RDiv(target, RMul(SizingHourly, Int2Rat(n)))

(* A sizing of C6 that rounds up: several tractors, whose joint capacity   *)
(* exceeds the target.                                                     *)
C6_Witness ==
    /\ pc = "done" /\ args.target_hectares > 0
    /\ RLt(Int2Rat(0), SizingDaily)
    /\ ret.tractors_needed >= 2
    /\ RLt(Int2Rat(args.target_hectares),
           RMul(Int2Rat(ret.tractors_needed), SizingDaily))

---------------------------------------------------------------------------
(* calculate_fuel_consumption called on bounded inputs.                    *)

FuelInputs ==
    { [operation_type |-> op, operating_speed |-> Rat(k, 2)] :
        op \in Operations, k \in 0 .. MaxFuelSpeedHalves }

InitFuel ==
    /\ pc = "call"
    /\ args \in FuelInputs
    /\ ret = None
    /\ prev = None

CalculateFuelConsumption ==
    /\ pc = "call"
    /\ ret' = [raised |-> "none",
               value |-> calculate_fuel_consumption(args.operation_type,
                                                    args.operating_speed)]
    /\ pc' = "done"
    /\ UNCHANGED <<args, prev>>

(* The next call for the same operation at another speed, as the loop of   *)
(* find_optimal_speed makes for each sampled speed; the call before it is  *)
(* kept in prev.                                                           *)
CalculateFuelConsumptionAtNextSpeed ==
    /\ pc = "done"
    /\ \E a \in FuelInputs :
          /\ a.operation_type = args.operation_type
          /\ a.operating_speed # args.operating_speed
          /\ args' = a
          /\ ret' = [raised |-> "none",
                     value |-> calculate_fuel_consumption(a.operation_type,
                                                          a.operating_speed)]
          /\ prev' = [operating_speed |-> args.operating_speed, ret |-> ret]
    /\ UNCHANGED pc

NextFuel == CalculateFuelConsumption \/ CalculateFuelConsumptionAtNextSpeed

SpecFuel == InitFuel /\ [][NextFuel]_vars

(* C9: for every speed <= 0 calculate_fuel_consumption ends in a           *)
(* DomainError and returns no fuel value.                                  *)
C9_NonPositiveSpeedRejected ==
    (pc = "done" /\ RLe(args.operating_speed, Int2Rat(0))) =>
        ret.raised = "DomainError"

(* The base rate of the operation of the current call, as a fuel value.    *)
BaseRate == PowVal(OPERATION_FUEL_DATA[args.operation_type].base, Int2Rat(1))

(* C12: for every operation of the catalog and speeds s1 < s2 with s1 > 0, *)
(* the fuel consumption at s1 is strictly less than at s2; and the fuel    *)
(* consumption at a speed equals the operation's base rate if and only if  *)
(* the speed equals the operation's reference speed.                       *)
C12_FuelStrictlyIncreasing ==
    (pc = "done") =>
        /\ (prev # None /\ RLt(Int2Rat(0), prev.operating_speed)
               /\ RLt(prev.operating_speed, args.operating_speed))
              => PLt(prev.ret.value, ret.value)
        /\ (prev # None /\ RLt(Int2Rat(0), args.operating_speed)
               /\ RLt(args.operating_speed, prev.operating_speed))
              => PLt(ret.value, prev.ret.value)
        /\ PEq(ret.value, BaseRate)
              <=> (args.operating_speed
                     = OPERATION_FUEL_DATA[args.operation_type].reference_speed)

(* Two calls of C12: a positive speed below the reference speed, then the  *)
(* reference speed itself, which yields the base rate.                     *)
C12_Witness ==
    /\ pc = "done"
    /\ prev # None
    /\ RLt(Int2Rat(0), prev.operating_speed)
    /\ RLt(prev.operating_speed, args.operating_speed)
    /\ args.operating_speed
          = OPERATION_FUEL_DATA[args.operation_type].reference_speed
    /\ PEq(ret.value, BaseRate)
    /\ PLt(prev.ret.value, ret.value)

---------------------------------------------------------------------------
(* solve_and_display called on bounded inputs.                             *)

LpFuelCosts == {Rat(1, 1), Rat(1379, 1)}

(* A negative ceiling leaves no tractor count within it.                   *)
LpMaxFuels == {Rat(-1, 1), Rat(0, 1), Rat(50, 1), Rat(100, 1), Rat(1000, 1)}

LpCoverages == {Rat(1, 1), Rat(5, 2)}

LpFuelPerTractor == {Rat(5, 1), Rat(25, 1), Rat(60, 1)}

LpInputs ==
    { [fuel_cost |-> c, max_fuel |-> f, max_tractors |-> n,
       coverage_per_tractor |-> cov, fuel_per_tractor |-> fpt] :
        c \in LpFuelCosts, f \in LpMaxFuels, n \in 0 .. MaxLpTractors,
        cov \in LpCoverages, fpt \in LpFuelPerTractor }

InitLP ==
    /\ pc = "call"
    /\ args \in LpInputs
    /\ ret = None
    /\ prev = None

SolveAndDisplay ==
    /\ pc = "call"
    /\ ret' = solve_and_display(args)
    /\ pc' = "done"
    /\ UNCHANGED <<args, prev>>

NextLP == SolveAndDisplay

SpecLP == InitLP /\ [][NextLP]_vars

(* The tractor counts within both ceilings, and the ratio objective        *)
(* fuel_cost * fuel / (hectares + 1) at a count: the enumeration oracle.   *)
LpFeasibleCounts ==
    {t \in 0 .. args.max_tractors :
        RLe(RMul(Int2Rat(t), args.fuel_per_tractor), args.max_fuel)}

LpRatio(t) ==
    RDiv(RMul(args.fuel_cost, RMul(Int2Rat(t), args.fuel_per_tractor)),
         RAdd(RMul(Int2Rat(t), args.coverage_per_tractor), Int2Rat(1)))

(* C10: whenever some integer tractor count in [0, max_tractors] satisfies *)
(* the fuel ceiling, building and solving the LP ends with status Optimal  *)
(* and an integer count t within both ceilings, fuel = t * fuel per        *)
(* tractor, hectares = t * coverage per tractor, and t minimises           *)
(* fuel_cost * fuel / (hectares + 1) over all such counts.                 *)
C10_LpAgreesWithEnumeration ==
    (pc = "done" /\ LpFeasibleCounts # {}) =>
        /\ ret.raised = "none"
        /\ ret.status = "Optimal"
        /\ ret.tractors \in LpFeasibleCounts
        /\ ret.fuel_used = RMul(Int2Rat(ret.tractors), args.fuel_per_tractor)
        /\ ret.hectares
              = RMul(Int2Rat(ret.tractors), args.coverage_per_tractor)
        /\ \A u \in LpFeasibleCounts : RLe(LpRatio(ret.tractors), LpRatio(u))

(* C11: solve_and_display never raises: every call ends by returning a     *)
(* result that carries a status, and when no integer tractor count in      *)
(* [0, max_tractors] satisfies the fuel ceiling that status is Infeasible  *)
(* and no fuel, hectares or tractors value is reported.                    *)
C11_LpNeverRaises ==
    (pc = "done") =>
        /\ ret.raised = "none"
        /\ ret.status # None
        /\ (LpFeasibleCounts = {}) =>
               /\ ret.status = "Infeasible"
               /\ ret.fuel_used = None
               /\ ret.hectares = None
               /\ ret.tractors = None

=============================================================================
